---------------------------- MODULE Spec2Model ----------------------------
(***************************************************************************)
(* Model of the kafkaprototype benchmark programs:                         *)
(*   bin/write_kafka.py  the producer: derive synthetic data, register the *)
(*                       schema, then stamp/validate/serialize/publish N   *)
(*                       messages through the write_1 bridge;              *)
(*   bin/read_kafka.py   the consumer: register schemas, create missing    *)
(*                       topics, subscribe, then read/deserialize/stamp/   *)
(*                       post-process messages.                            *)
(* One process runs one of the two programs (variable prog).  The          *)
(* variables pc, args, i, data_dict, t0, raw_data are the locals of main() *)
(* that both programs have.  time.time() is a counter of ticks (tenths of  *)
(* a second) since the process started; every call advances it.  Values of *)
(* message fields are tagged with their Python type, as isinstance() sees  *)
(* them.  A local that Python has not bound yet is the empty tuple, a      *)
(* bound one the 1-tuple of its value.                                     *)
(* Spec is the two programs as they are, with a broker whose               *)
(* describe_configs fails for unknown topics only.  BridgeSpec is the      *)
(* producer with write_1 or write_2 awaited by the publish loop.           *)
(* ProvisionSpec is the consumer up to its subscription, with a broker     *)
(* whose describe_configs may fail with other errors as well.              *)
(***************************************************************************)
EXTENDS Integers, Sequences, FiniteSets, TLC

VARIABLES
    prog,               \* "producer" (write_kafka.py) or "consumer" (read_kafka.py)
    pc,                 \* position of the driver coroutine main()
    args,               \* parsed command line
    error,              \* the uncaught exception that ended main(), or "none"
    now,                \* time.time()
    i,                  \* loop variable i of main()
    t0,                 \* local t0 of main()
    data_dict,          \* local data_dict of main()
    raw_data,           \* local raw_data (write_1; read loop)
    registry,           \* schema registry server: subject -> schema id
    register_calls,     \* history: subject of every register_schema call of this run
    client_calls,       \* history: calls on the Producer/Consumer object, with the calling thread
    \* ---- producer (write_kafka.py)
    indexed,            \* component_info.indexed
    default_data_dict,  \* Model().dict()
    field_names,        \* the field names in the order of Model().dict()
    invalid_seq,        \* the private_seqNum whose record the validators reject (0: none)
    bridge,             \* the bridge coroutine line 177 awaits: "write_1", or "write_2" in its place
    schema_id,          \* result of registry.register_schema
    send_data_dict,     \* local send_data_dict of main()
    stamped,            \* history: the fields of data_dict written in this iteration, in order
    future,             \* the asyncio future of write_1
    cfuture,            \* the concurrent.futures.Future of blocking_write_2
    wrapped,            \* the asyncio future blocking_write_2 returns (asyncio.wrap_future)
    exec_future,        \* the future of loop.run_in_executor
    worker,             \* position of the pool thread running blocking_write_1
    loop_ready,         \* callbacks queued on the event loop by call_soon_threadsafe
    producer_queue,     \* messages handed to produce(), delivery report pending
    topic_log,          \* messages the broker has accepted, in order
    produced,           \* history: private_seqNum of every produce() call
    acked,              \* history: private_seqNum of every delivery result the driver awaited
    cb_invoked,         \* history: private_seqNum of every delivery callback invocation
    \* ---- consumer (read_kafka.py)
    reg_count,          \* topics whose schema the loop of lines 106-114 has registered
    kafka_name_topic_info, \* dict of kafka name: TopicInfo
    broker_topics,      \* the broker's topics: name -> partitions, replication factor
    broker_start,       \* history: broker_topics when this run of main() started
    describe_errors,    \* names whose describe_configs fails with an error other than UNKNOWN_TOPIC_OR_PART
    add_topics,         \* local add_topics
    new_topic_names,    \* local new_topic_names
    new_topic_metadata, \* local new_topic_metadata
    fs,                 \* local fs: the result of create_topics, per topic
    create_calls,       \* history: create_topics calls of this run
    provisioned,        \* history: lines 116-162 finished without an error in this run
    subscribed,         \* the consumer's subscription
    pool_tasks,         \* blocking_read tasks running in the pool
    empty_polls,        \* polls of the running task that timed out
    read_done,          \* finished blocking_read tasks the driver has not resumed on yet
    message,            \* local message
    delays,             \* local delays
    processed_data,     \* local processed_data
    delivered,          \* messages the broker has handed to poll()
    polled,             \* history: messages blocking_read returned, in order
    processed,          \* history: messages whose loop iteration finished, in order
    run,                \* how many times main() has been started
    runs_log            \* history: per finished run, whether it provisioned

vars == <<prog, pc, args, error, now, i, t0, data_dict, raw_data, registry,
          register_calls, client_calls,
          indexed, default_data_dict, field_names, invalid_seq, bridge, schema_id, send_data_dict, stamped,
          future, cfuture, wrapped, exec_future, worker, loop_ready, producer_queue, topic_log,
          produced, acked, cb_invoked,
          reg_count, kafka_name_topic_info, broker_topics, broker_start, describe_errors, add_topics,
          new_topic_names, new_topic_metadata, fs, create_calls, provisioned,
          subscribed, pool_tasks, empty_polls, read_done, message, delays,
          processed_data, delivered, polled, processed, run, runs_log>>

-----------------------------------------------------------------------------
(* Bounds of the model *)

\* The largest message count (--number) of the producer.
MaxNumber == 3

\* The messages the broker has for the consumer; its largest --number.
MaxDeliver == 2

\* The polls of one blocking_read that may time out.
MaxEmptyPolls == 1

\* How many times the consumer is started against the same broker.
MaxRuns == 2

-----------------------------------------------------------------------------
(* Python values, tagged with their type *)

PyInt(n) == [type |-> "int", val |-> n]

PyFloat(n) == [type |-> "float", val |-> n]

PyStr(s) == [type |-> "str", val |-> s]

PyList(elemtype, n) == [type |-> "list", val |-> [k \in 1..2 |-> [type |-> elemtype, val |-> n]]]

Mapping == [type |-> "dict", val |-> 0]

isinstance(value, t) == value.type = t

Range(f) == {f[x] : x \in DOMAIN f}

\* d[name] = value
SetItem(d, name, value) == [k \in DOMAIN d \cup {name} |-> IF k = name THEN value ELSE d[k]]

-----------------------------------------------------------------------------
(* write_kafka.py *)

ValidationType == {"none", "custom", "dataclass", "dataclass_and_decode",
                   "pydantic", "pydantic_and_decode"}

\* The default values a topic's user field can have, by field type.
FieldDefaults == {PyInt(0), PyFloat(0), PyStr(""), PyList("int", 0), PyList("float", 0),
                  PyList("str", ""), Mapping}

\* Model().dict(): the private fields every topic has, private_index for an
\* indexed component, and one user field.
DefaultRecord(isIndexed, userDefault) ==
    LET base == [k \in {"private_seqNum", "private_sndStamp", "private_rcvStamp", "value"} |->
                    CASE k = "private_seqNum" -> PyInt(0)
                      [] k = "value" -> userDefault
                      [] OTHER -> PyFloat(0)]
    IN IF isIndexed THEN SetItem(base, "private_index", PyInt(0)) ELSE base

\* The field names of Model().dict() in order, with the user field at
\* position p among the private fields.
FieldOrder(isIndexed, p) ==
    LET private == <<"private_seqNum", "private_sndStamp", "private_rcvStamp">> \o
                       (IF isIndexed THEN <<"private_index">> ELSE << >>)
    IN SubSeq(private, 1, p - 1) \o <<"value">> \o SubSeq(private, p, Len(private))

\* The orders the fields can have: the user field anywhere among the private
\* fields.  (The order only matters for a record with an unsupported field;
\* the other records are taken in one order.)
FieldOrders(isIndexed) ==
    {FieldOrder(isIndexed, p) : p \in 1..(IF isIndexed THEN 5 ELSE 4)}

\* The command line; --nowait_ack only sets the acks the producer asks for.
ProducerArgs == [number : 0..MaxNumber, index : {0, 1}, validation : ValidationType]

\* What raise RuntimeError(...) yields in place of a value.
RuntimeError == [type |-> "RuntimeError", val |-> 0]

NonDefaultKeepsUnknown(value) ==
    IF isinstance(value, "list")
    THEN IF isinstance(value.val[1], "int") THEN PyList("int", 1)
         ELSE IF isinstance(value.val[1], "float") THEN PyList("float", 11)
         ELSE value
    ELSE IF isinstance(value, "int") THEN PyInt(1)
    ELSE IF isinstance(value, "float") THEN PyFloat(11)
    ELSE IF isinstance(value, "str") THEN PyStr("a short string")
    ELSE value

\* Lines 72-86: the non-default value of one field; RuntimeError for an
\* unsupported type.
NonDefault(value) ==
    IF isinstance(value, "list")
    THEN IF isinstance(value.val[1], "int") THEN PyList("int", 1)
         ELSE IF isinstance(value.val[1], "float") THEN PyList("float", 11)
         ELSE RuntimeError
    ELSE IF isinstance(value, "int") THEN PyInt(1)
    ELSE IF isinstance(value, "float") THEN PyFloat(11)
    ELSE IF isinstance(value, "str") THEN PyStr("a short string")
    ELSE RuntimeError

\* The subject and the wire name of a topic (kafkaprototype.TopicInfo).
avro_subject(attr_name) == attr_name + 20

kafka_name(attr_name) == attr_name + 10

\* The topic the producer writes (args.topic).
ProducerTopic == 1

\* The states a broker can be in when the producer's main() starts: the
\* producer's topic exists or it does not.
ProducerBrokerStates ==
    {[name \in S |-> [num_partitions |-> 1, replication_factor |-> 1]] :
     S \in SUBSET {kafka_name(ProducerTopic)}}

\* The consumer's state in a process that runs the producer.
ConsumerIdle ==
    /\ describe_errors = {}
    /\ reg_count = 0
    /\ kafka_name_topic_info = << >>
    /\ add_topics = << >>
    /\ new_topic_names = << >>
    /\ new_topic_metadata = << >>
    /\ fs = << >>
    /\ create_calls = 0
    /\ provisioned = FALSE
    /\ subscribed = << >>
    /\ pool_tasks = 0
    /\ empty_polls = 0
    /\ read_done = << >>
    /\ message = << >>
    /\ delays = << >>
    /\ processed_data = << >>
    /\ delivered = 0
    /\ polled = << >>
    /\ processed = << >>
    /\ run = 1
    /\ runs_log = << >>

ProducerStart ==
    /\ prog = "producer"
    /\ pc = "derive"
    /\ args \in ProducerArgs
    /\ error = "none"
    /\ now = 0
    /\ i = 0
    /\ t0 = << >>
    /\ data_dict = << >>
    /\ raw_data = << >>
    /\ registry = << >>
    /\ register_calls = << >>
    /\ client_calls = {}
    /\ indexed \in BOOLEAN
    /\ \E userDefault \in FieldDefaults :
           /\ default_data_dict = DefaultRecord(indexed, userDefault)
           /\ field_names \in IF NonDefault(userDefault) = RuntimeError
                               THEN FieldOrders(indexed)
                               ELSE {FieldOrder(indexed, 4)}
    /\ invalid_seq \in 0..MaxNumber
    /\ schema_id = 0
    /\ send_data_dict = << >>
    /\ stamped = << >>
    /\ future = "none"
    /\ cfuture = "none"
    /\ wrapped = "none"
    /\ exec_future = "none"
    /\ worker = "idle"
    /\ loop_ready = << >>
    /\ producer_queue = << >>
    /\ topic_log = << >>
    /\ produced = << >>
    /\ acked = << >>
    /\ cb_invoked = << >>
    /\ broker_topics \in ProducerBrokerStates
    /\ broker_start = broker_topics
    /\ ConsumerIdle

\* write_kafka.py as it is: line 177 awaits write_1.
ProducerInit ==
    /\ bridge = "write_1"
    /\ ProducerStart

\* A call on the broker client object, made on the event loop's thread
\* ("driver", where main() runs) or on a thread of the ThreadPoolExecutor.
ClientCall(call, thread) == [call |-> call, thread |-> thread]

\* main() ends with an uncaught exception.
Raise(exc) ==
    /\ pc' = "failed"
    /\ error' = exc

\* Lines 68-87: non-default data for all fields, assigned field by field in
\* the order of the record; the first field of an unsupported type raises,
\* with the fields before it already assigned.
Derive ==
    /\ prog = "producer" /\ pc = "derive"
    /\ LET unsupported == {k \in DOMAIN field_names :
                              NonDefault(default_data_dict[field_names[k]]) = RuntimeError}
           Position(name) == CHOOSE k \in DOMAIN field_names : field_names[k] = name
       IN IF unsupported # {}
          THEN LET first == CHOOSE k \in unsupported : \A m \in unsupported : k <= m
               IN /\ Raise("RuntimeError")
                  /\ data_dict' = [name \in DOMAIN default_data_dict |->
                                       IF Position(name) < first
                                       THEN NonDefault(default_data_dict[name])
                                       ELSE default_data_dict[name]]
          ELSE /\ data_dict' = [name \in DOMAIN default_data_dict |->
                                    NonDefault(default_data_dict[name])]
               /\ pc' = "register"
               /\ UNCHANGED error
    /\ UNCHANGED <<prog, args, now, i, t0, raw_data, registry, register_calls, client_calls,
                 indexed, default_data_dict, field_names, invalid_seq, bridge, schema_id,
                 send_data_dict, stamped, future, cfuture, wrapped, exec_future, worker,
                 loop_ready, producer_queue, topic_log, produced, acked, cb_invoked,
                 reg_count, kafka_name_topic_info, broker_topics, broker_start,
                 describe_errors, add_topics, new_topic_names, new_topic_metadata, fs,
                 create_calls, provisioned, subscribed, pool_tasks, empty_polls, read_done,
                 message, delays, processed_data, delivered, polled, processed, run,
                 runs_log>>

\* The registry's answer to register_schema: the id the subject already has,
\* or the next free id.
RegisteredId(reg, subject) ==
    IF subject \in DOMAIN reg THEN reg[subject] ELSE Cardinality(DOMAIN reg) + 1

\* Lines 89-97: register the schema.
RegisterSchema ==
    /\ prog = "producer" /\ pc = "register"
    /\ schema_id' = RegisteredId(registry, avro_subject(ProducerTopic))
    /\ registry' = SetItem(registry, avro_subject(ProducerTopic), schema_id')
    /\ register_calls' = Append(register_calls, avro_subject(ProducerTopic))
    /\ pc' = "create_producer"
    /\ UNCHANGED <<prog, args, error, now, i, t0, data_dict, raw_data, client_calls, indexed,
                 default_data_dict, field_names, invalid_seq, bridge, send_data_dict,
                 stamped, future, cfuture, wrapped, exec_future, worker, loop_ready,
                 producer_queue, topic_log, produced, acked, cb_invoked, reg_count,
                 kafka_name_topic_info, broker_topics, broker_start, describe_errors,
                 add_topics, new_topic_names, new_topic_metadata, fs, create_calls,
                 provisioned, subscribed, pool_tasks, empty_polls, read_done, message,
                 delays, processed_data, delivered, polled, processed, run, runs_log>>

\* Lines 98-104 and 150-152: serializer, producer, pool; t0 = time.time().
CreateProducer ==
    /\ prog = "producer" /\ pc = "create_producer"
    /\ t0' = <<now>>
    /\ now' = now + 1
    /\ pc' = "loop"
    /\ UNCHANGED <<prog, args, error, i, data_dict, raw_data, registry, register_calls,
                 client_calls, indexed, default_data_dict, field_names, invalid_seq,
                 bridge, schema_id, send_data_dict, stamped, future, cfuture, wrapped,
                 exec_future, worker, loop_ready, producer_queue, topic_log, produced,
                 acked, cb_invoked, reg_count, kafka_name_topic_info, broker_topics,
                 broker_start, describe_errors, add_topics, new_topic_names,
                 new_topic_metadata, fs, create_calls, provisioned, subscribed, pool_tasks,
                 empty_polls, read_done, message, delays, processed_data, delivered,
                 polled, processed, run, runs_log>>

\* Line 153: for i in range(args.number).  i counts the finished iterations,
\* which is the value of Python's i inside the next one.
LoopHead ==
    /\ prog = "producer" /\ pc = "loop"
    /\ pc' = IF i < args.number THEN "stamp_seq" ELSE "report"
    /\ stamped' = << >>
    /\ UNCHANGED <<prog, args, error, now, i, t0, data_dict, raw_data, registry,
                 register_calls, client_calls, indexed, default_data_dict, field_names,
                 invalid_seq, bridge, schema_id, send_data_dict, future, cfuture, wrapped,
                 exec_future, worker, loop_ready, producer_queue, topic_log, produced,
                 acked, cb_invoked, reg_count, kafka_name_topic_info, broker_topics,
                 broker_start, describe_errors, add_topics, new_topic_names,
                 new_topic_metadata, fs, create_calls, provisioned, subscribed, pool_tasks,
                 empty_polls, read_done, message, delays, processed_data, delivered,
                 polled, processed, run, runs_log>>

\* Line 157: send_data_dict is the dict data_dict, not a copy, once an
\* iteration has passed line 157 with a strategy that does not rebind it
\* (lines 165-176 rebind it to vars(model) or model.dict()).
SameDict ==
    /\ send_data_dict # << >>
    /\ args.validation \notin {"dataclass_and_decode", "pydantic_and_decode"}

\* StampSeqNum with the sequence number counted from 0.
StampSeqNumZeroBased ==
    /\ prog = "producer" /\ pc = "stamp_seq"
    /\ data_dict' = SetItem(data_dict, "private_seqNum", PyInt(i))
    /\ pc' = "stamp_snd"
    /\ stamped' = Append(stamped, "private_seqNum")
    /\ send_data_dict' = IF SameDict THEN data_dict' ELSE send_data_dict
    /\ UNCHANGED <<prog, args, error, now, i, t0, raw_data, registry, register_calls,
                 client_calls, indexed, default_data_dict, field_names, invalid_seq,
                 bridge, schema_id, future, cfuture, wrapped, exec_future, worker,
                 loop_ready, producer_queue, topic_log, produced, acked, cb_invoked,
                 reg_count, kafka_name_topic_info, broker_topics, broker_start,
                 describe_errors, add_topics, new_topic_names, new_topic_metadata, fs,
                 create_calls, provisioned, subscribed, pool_tasks, empty_polls, read_done,
                 message, delays, processed_data, delivered, polled, processed, run,
                 runs_log>>

\* Line 154.
StampSeqNum ==
    /\ prog = "producer" /\ pc = "stamp_seq"
    /\ data_dict' = SetItem(data_dict, "private_seqNum", PyInt(i + 1))
    /\ pc' = "stamp_snd"
    /\ stamped' = Append(stamped, "private_seqNum")
    /\ send_data_dict' = IF SameDict THEN data_dict' ELSE send_data_dict
    /\ UNCHANGED <<prog, args, error, now, i, t0, raw_data, registry, register_calls,
                 client_calls, indexed, default_data_dict, field_names, invalid_seq,
                 bridge, schema_id, future, cfuture, wrapped, exec_future, worker,
                 loop_ready, producer_queue, topic_log, produced, acked, cb_invoked,
                 reg_count, kafka_name_topic_info, broker_topics, broker_start,
                 describe_errors, add_topics, new_topic_names, new_topic_metadata, fs,
                 create_calls, provisioned, subscribed, pool_tasks, empty_polls, read_done,
                 message, delays, processed_data, delivered, polled, processed, run,
                 runs_log>>

\* Line 155.
StampSndStamp ==
    /\ prog = "producer" /\ pc = "stamp_snd"
    /\ data_dict' = SetItem(data_dict, "private_sndStamp", PyFloat(now))
    /\ now' = now + 1
    /\ pc' = "stamp_index"
    /\ stamped' = Append(stamped, "private_sndStamp")
    /\ send_data_dict' = IF SameDict THEN data_dict' ELSE send_data_dict
    /\ UNCHANGED <<prog, args, error, i, t0, raw_data, registry, register_calls,
                 client_calls, indexed, default_data_dict, field_names, invalid_seq,
                 bridge, schema_id, future, cfuture, wrapped, exec_future, worker,
                 loop_ready, producer_queue, topic_log, produced, acked, cb_invoked,
                 reg_count, kafka_name_topic_info, broker_topics, broker_start,
                 describe_errors, add_topics, new_topic_names, new_topic_metadata, fs,
                 create_calls, provisioned, subscribed, pool_tasks, empty_polls, read_done,
                 message, delays, processed_data, delivered, polled, processed, run,
                 runs_log>>

\* Lines 156-157.
StampIndex ==
    /\ prog = "producer" /\ pc = "stamp_index"
    /\ data_dict' = IF indexed THEN SetItem(data_dict, "private_index", PyInt(args.index))
                    ELSE data_dict
    /\ pc' = "validate"
    /\ stamped' = IF indexed THEN Append(stamped, "private_index") ELSE stamped
    /\ send_data_dict' = IF SameDict THEN data_dict' ELSE send_data_dict
    /\ UNCHANGED <<prog, args, error, now, i, t0, raw_data, registry, register_calls,
                 client_calls, indexed, default_data_dict, field_names, invalid_seq,
                 bridge, schema_id, future, cfuture, wrapped, exec_future, worker,
                 loop_ready, producer_queue, topic_log, produced, acked, cb_invoked,
                 reg_count, kafka_name_topic_info, broker_topics, broker_start,
                 describe_errors, add_topics, new_topic_names, new_topic_metadata, fs,
                 create_calls, provisioned, subscribed, pool_tasks, empty_polls, read_done,
                 message, delays, processed_data, delivered, polled, processed, run,
                 runs_log>>

\* Whether the validators of the topic accept a record
\* (TopicInfo.validate_data, the dataclass, the pydantic model).
Accepts(d) == d["private_seqNum"].val # invalid_seq

\* DataClass(**d) and vars(model); Model(**d) and model.dict().
DataClass(d) == [cls |-> "DataClass", fields |-> d]

Model(d) == [cls |-> "Model", fields |-> d]

FieldsOf(model) == model.fields

\* Lines 158-176: the record to send under a validation strategy.
Validated(validation, d) ==
    CASE validation = "dataclass_and_decode" -> FieldsOf(DataClass(d))
      [] validation = "pydantic_and_decode" -> FieldsOf(Model(d))
      [] OTHER -> d

ValidateSkipsRejected ==
    /\ prog = "producer" /\ pc = "validate"
    /\ IF args.validation # "none" /\ ~Accepts(data_dict)
       THEN /\ send_data_dict' = data_dict
            /\ i' = i + 1
            /\ pc' = "loop"
       ELSE /\ send_data_dict' = Validated(args.validation, data_dict)
            /\ pc' = bridge
            /\ UNCHANGED i
    /\ UNCHANGED <<prog, args, error, now, t0, data_dict, raw_data, registry, register_calls,
                 client_calls, indexed, default_data_dict, field_names, invalid_seq,
                 bridge, schema_id, stamped, future, cfuture, wrapped, exec_future, worker,
                 loop_ready, producer_queue, topic_log, produced, acked, cb_invoked,
                 reg_count, kafka_name_topic_info, broker_topics, broker_start,
                 describe_errors, add_topics, new_topic_names, new_topic_metadata, fs,
                 create_calls, provisioned, subscribed, pool_tasks, empty_polls, read_done,
                 message, delays, processed_data, delivered, polled, processed, run,
                 runs_log>>

\* Lines 158-177: the validation, then the call of the bridge coroutine.
Validate ==
    /\ prog = "producer" /\ pc = "validate"
    /\ IF args.validation # "none" /\ ~Accepts(data_dict)
       THEN /\ Raise("ValidationError")
            /\ send_data_dict' = data_dict
       ELSE /\ send_data_dict' = Validated(args.validation, data_dict)
            /\ pc' = bridge
            /\ UNCHANGED error
    /\ UNCHANGED <<prog, args, now, i, t0, data_dict, raw_data, registry, register_calls,
                 client_calls, indexed, default_data_dict, field_names, invalid_seq,
                 bridge, schema_id, stamped, future, cfuture, wrapped, exec_future, worker,
                 loop_ready, producer_queue, topic_log, produced, acked, cb_invoked,
                 reg_count, kafka_name_topic_info, broker_topics, broker_start,
                 describe_errors, add_topics, new_topic_names, new_topic_metadata, fs,
                 create_calls, provisioned, subscribed, pool_tasks, empty_polls, read_done,
                 message, delays, processed_data, delivered, polled, processed, run,
                 runs_log>>

\* Serializer(schema, schema_id)(data): the wire message, the schema id
\* followed by the encoded fields.
Serialize(id, d) == [schema_id |-> id, payload |-> d]

\* Lines 111-126: write_1 up to its first await: the future, the serialized
\* data, blocking_write_1 handed to the pool.
Write1Start ==
    /\ prog = "producer" /\ pc = "write_1"
    /\ future' = "pending"
    /\ raw_data' = Serialize(schema_id, send_data_dict)
    /\ exec_future' = "pending"
    /\ worker' = "produce"
    /\ pc' = "await_executor"
    /\ UNCHANGED <<prog, args, error, now, i, t0, data_dict, registry, register_calls,
                 client_calls, indexed, default_data_dict, field_names, invalid_seq,
                 bridge, schema_id, send_data_dict, stamped, cfuture, wrapped, loop_ready,
                 producer_queue, topic_log, produced, acked, cb_invoked, reg_count,
                 kafka_name_topic_info, broker_topics, broker_start, describe_errors,
                 add_topics, new_topic_names, new_topic_metadata, fs, create_calls,
                 provisioned, subscribed, pool_tasks, empty_polls, read_done, message,
                 delays, processed_data, delivered, polled, processed, run, runs_log>>

SeqNumOf(raw) == raw.payload["private_seqNum"].val

\* Produce with no flush after it: blocking_write_1 returns at once.
ProduceWithoutFlush ==
    /\ prog = "producer" /\ worker = "produce"
    /\ producer_queue' = Append(producer_queue, raw_data)
    /\ produced' = Append(produced, SeqNumOf(raw_data))
    /\ worker' = "idle"
    /\ loop_ready' = Append(loop_ready, "executor_done")
    /\ client_calls' = client_calls \cup {ClientCall("produce", "pool")}
    /\ UNCHANGED <<prog, pc, args, error, now, i, t0, data_dict, raw_data, registry,
                 register_calls, indexed, default_data_dict, field_names, invalid_seq,
                 bridge, schema_id, send_data_dict, stamped, future, cfuture, wrapped,
                 exec_future, topic_log, acked, cb_invoked, reg_count,
                 kafka_name_topic_info, broker_topics, broker_start, describe_errors,
                 add_topics, new_topic_names, new_topic_metadata, fs, create_calls,
                 provisioned, subscribed, pool_tasks, empty_polls, read_done, message,
                 delays, processed_data, delivered, polled, processed, run, runs_log>>

\* Line 123, in the pool thread: producer.produce(topic_name, raw_data, on_delivery=callback).
Produce ==
    /\ prog = "producer" /\ worker = "produce"
    /\ producer_queue' = Append(producer_queue, raw_data)
    /\ produced' = Append(produced, SeqNumOf(raw_data))
    /\ worker' = "flush"
    /\ client_calls' = client_calls \cup {ClientCall("produce", "pool")}
    /\ UNCHANGED <<prog, pc, args, error, now, i, t0, data_dict, raw_data, registry,
                 register_calls, indexed, default_data_dict, field_names, invalid_seq,
                 bridge, schema_id, send_data_dict, stamped, future, cfuture, wrapped,
                 exec_future, loop_ready, topic_log, acked, cb_invoked, reg_count,
                 kafka_name_topic_info, broker_topics, broker_start, describe_errors,
                 add_topics, new_topic_names, new_topic_metadata, fs, create_calls,
                 provisioned, subscribed, pool_tasks, empty_polls, read_done, message,
                 delays, processed_data, delivered, polled, processed, run, runs_log>>

\* Callback that drops the delivery error.
CallbackDropsError(err) == "set_result"

\* Lines 115-121: what the delivery callback queues on the loop.
Callback(err) == IF err THEN "set_exception" ELSE "set_result"

\* The broker's topics once it has accepted a message for a topic: a broker
\* that accepts a message for a topic it does not have has created the topic
\* itself, with its own defaults.
AutoCreated(topics, name) ==
    IF name \in DOMAIN topics THEN topics
    ELSE SetItem(topics, name, [num_partitions |-> 1, replication_factor |-> 1])

\* Line 124, in the pool thread: producer.flush() delivers a queued message;
\* the broker accepts it or reports an error, and the callback is invoked.
FlushDeliver ==
    /\ prog = "producer" /\ worker = "flush" /\ producer_queue # << >>
    /\ \E err \in BOOLEAN :
        /\ topic_log' = IF err THEN topic_log ELSE Append(topic_log, Head(producer_queue))
        /\ broker_topics' = IF err THEN broker_topics
                            ELSE AutoCreated(broker_topics, kafka_name(ProducerTopic))
        /\ loop_ready' = Append(loop_ready, Callback(err))
    /\ cb_invoked' = Append(cb_invoked, SeqNumOf(Head(producer_queue)))
    /\ producer_queue' = Tail(producer_queue)
    /\ client_calls' = client_calls \cup {ClientCall("flush", "pool")}
    /\ UNCHANGED <<prog, pc, args, error, now, i, t0, data_dict, raw_data, registry,
                 register_calls, indexed, default_data_dict, field_names, invalid_seq,
                 bridge, schema_id, send_data_dict, stamped, future, cfuture, wrapped,
                 exec_future, worker, produced, acked, reg_count, kafka_name_topic_info,
                 broker_start, describe_errors, add_topics, new_topic_names,
                 new_topic_metadata, fs, create_calls, provisioned, subscribed, pool_tasks,
                 empty_polls, read_done, message, delays, processed_data, delivered,
                 polled, processed, run, runs_log>>

\* Line 124 returns once nothing is queued; blocking_write_1 returns and the
\* pool completes the executor future through the loop.
FlushReturn ==
    /\ prog = "producer" /\ worker = "flush" /\ producer_queue = << >>
    /\ worker' = "idle"
    /\ loop_ready' = Append(loop_ready, "executor_done")
    /\ client_calls' = client_calls \cup {ClientCall("flush", "pool")}
    /\ UNCHANGED <<prog, pc, args, error, now, i, t0, data_dict, raw_data, registry,
                 register_calls, indexed, default_data_dict, field_names, invalid_seq,
                 bridge, schema_id, send_data_dict, stamped, future, cfuture, wrapped,
                 exec_future, producer_queue, topic_log, produced, acked, cb_invoked,
                 reg_count, kafka_name_topic_info, broker_topics, broker_start,
                 describe_errors, add_topics, new_topic_names, new_topic_metadata, fs,
                 create_calls, provisioned, subscribed, pool_tasks, empty_polls, read_done,
                 message, delays, processed_data, delivered, polled, processed, run,
                 runs_log>>

\* The event loop runs the next queued callback: future.set_result,
\* future.set_exception (lines 117-121), or the executor future's completion.
LoopRun ==
    /\ prog = "producer" /\ loop_ready # << >>
    /\ future' = CASE Head(loop_ready) = "set_result" -> "result"
                   [] Head(loop_ready) = "set_exception" -> "exception"
                   [] OTHER -> future
    /\ wrapped' = CASE Head(loop_ready) = "wrapped_set_result" -> "result"
                    [] Head(loop_ready) = "wrapped_set_exception" -> "exception"
                    [] OTHER -> wrapped
    /\ exec_future' = IF Head(loop_ready) = "executor_done" THEN "done" ELSE exec_future
    /\ loop_ready' = Tail(loop_ready)
    /\ UNCHANGED <<prog, pc, args, error, now, i, t0, data_dict, raw_data, registry,
                 register_calls, client_calls, indexed, default_data_dict, field_names,
                 invalid_seq, bridge, schema_id, send_data_dict, stamped, cfuture, worker,
                 producer_queue, topic_log, produced, acked, cb_invoked, reg_count,
                 kafka_name_topic_info, broker_topics, broker_start, describe_errors,
                 add_topics, new_topic_names, new_topic_metadata, fs, create_calls,
                 provisioned, subscribed, pool_tasks, empty_polls, read_done, message,
                 delays, processed_data, delivered, polled, processed, run, runs_log>>

\* AwaitExecutor with write_1 returning without awaiting its future.
AwaitExecutorOnly ==
    /\ prog = "producer" /\ pc = "await_executor" /\ exec_future = "done"
    /\ pc' = "loop"
    /\ i' = i + 1
    /\ UNCHANGED <<prog, args, error, now, t0, data_dict, raw_data, registry, register_calls,
                 client_calls, indexed, default_data_dict, field_names, invalid_seq,
                 bridge, schema_id, send_data_dict, stamped, future, cfuture, wrapped,
                 exec_future, worker, loop_ready, producer_queue, topic_log, produced,
                 acked, cb_invoked, reg_count, kafka_name_topic_info, broker_topics,
                 broker_start, describe_errors, add_topics, new_topic_names,
                 new_topic_metadata, fs, create_calls, provisioned, subscribed, pool_tasks,
                 empty_polls, read_done, message, delays, processed_data, delivered,
                 polled, processed, run, runs_log>>

\* Line 126: await loop.run_in_executor(...) resumes.
AwaitExecutor ==
    /\ prog = "producer" /\ pc = "await_executor" /\ exec_future = "done"
    /\ pc' = "await_future"
    /\ UNCHANGED <<prog, args, error, now, i, t0, data_dict, raw_data, registry,
                 register_calls, client_calls, indexed, default_data_dict, field_names,
                 invalid_seq, bridge, schema_id, send_data_dict, stamped, future, cfuture,
                 wrapped, exec_future, worker, loop_ready, producer_queue, topic_log,
                 produced, acked, cb_invoked, reg_count, kafka_name_topic_info,
                 broker_topics, broker_start, describe_errors, add_topics, new_topic_names,
                 new_topic_metadata, fs, create_calls, provisioned, subscribed, pool_tasks,
                 empty_polls, read_done, message, delays, processed_data, delivered,
                 polled, processed, run, runs_log>>

\* Line 127: await future; a delivery error is raised in main(), which does
\* not catch it.  Otherwise write_1 returns and the iteration is over.
AwaitFuture ==
    /\ prog = "producer" /\ pc = "await_future" /\ future \in {"result", "exception"}
    /\ acked' = Append(acked, SeqNumOf(raw_data))
    /\ IF future = "exception"
       THEN /\ Raise("KafkaException")
            /\ UNCHANGED i
       ELSE /\ pc' = "loop"
            /\ i' = i + 1
            /\ UNCHANGED error
    /\ UNCHANGED <<prog, args, now, t0, data_dict, raw_data, registry, register_calls,
                 client_calls, indexed, default_data_dict, field_names, invalid_seq,
                 bridge, schema_id, send_data_dict, stamped, future, cfuture, wrapped,
                 exec_future, worker, loop_ready, producer_queue, topic_log, produced,
                 cb_invoked, reg_count, kafka_name_topic_info, broker_topics, broker_start,
                 describe_errors, add_topics, new_topic_names, new_topic_metadata, fs,
                 create_calls, provisioned, subscribed, pool_tasks, empty_polls, read_done,
                 message, delays, processed_data, delivered, polled, processed, run,
                 runs_log>>

\* Lines 178-179: dt = time.time() - t0 and the report.
ProducerReport ==
    /\ prog = "producer" /\ pc = "report"
    /\ now' = now + 1
    /\ pc' = "sleep"
    /\ UNCHANGED <<prog, args, error, i, t0, data_dict, raw_data, registry, register_calls,
                 client_calls, indexed, default_data_dict, field_names, invalid_seq,
                 bridge, schema_id, send_data_dict, stamped, future, cfuture, wrapped,
                 exec_future, worker, loop_ready, producer_queue, topic_log, produced,
                 acked, cb_invoked, reg_count, kafka_name_topic_info, broker_topics,
                 broker_start, describe_errors, add_topics, new_topic_names,
                 new_topic_metadata, fs, create_calls, provisioned, subscribed, pool_tasks,
                 empty_polls, read_done, message, delays, processed_data, delivered,
                 polled, processed, run, runs_log>>

\* Line 182: await asyncio.sleep(1).
Sleep ==
    /\ prog = "producer" /\ pc = "sleep"
    /\ now' = now + 10
    /\ pc' = "done"
    /\ UNCHANGED <<prog, args, error, i, t0, data_dict, raw_data, registry, register_calls,
                 client_calls, indexed, default_data_dict, field_names, invalid_seq,
                 bridge, schema_id, send_data_dict, stamped, future, cfuture, wrapped,
                 exec_future, worker, loop_ready, producer_queue, topic_log, produced,
                 acked, cb_invoked, reg_count, kafka_name_topic_info, broker_topics,
                 broker_start, describe_errors, add_topics, new_topic_names,
                 new_topic_metadata, fs, create_calls, provisioned, subscribed, pool_tasks,
                 empty_polls, read_done, message, delays, processed_data, delivered,
                 polled, processed, run, runs_log>>

\* Lines 147-148: write_2 up to its await: the serialized data,
\* blocking_write_2 handed to the pool.
Write2Start ==
    /\ prog = "producer" /\ pc = "write_2"
    /\ raw_data' = Serialize(schema_id, send_data_dict)
    /\ exec_future' = "pending"
    /\ worker' = "produce_2"
    /\ pc' = "await_executor_2"
    /\ UNCHANGED <<prog, args, error, now, i, t0, data_dict, registry, register_calls,
                 client_calls, indexed, default_data_dict, field_names, invalid_seq,
                 bridge, schema_id, send_data_dict, stamped, future, cfuture, wrapped,
                 loop_ready, producer_queue, topic_log, produced, acked, cb_invoked,
                 reg_count, kafka_name_topic_info, broker_topics, broker_start,
                 describe_errors, add_topics, new_topic_names, new_topic_metadata, fs,
                 create_calls, provisioned, subscribed, pool_tasks, empty_polls, read_done,
                 message, delays, processed_data, delivered, polled, processed, run,
                 runs_log>>

\* Lines 135 and 143, in the pool thread: cfuture = Future();
\* producer.produce(topic_name, raw_data, on_delivery=callback).
Produce2 ==
    /\ prog = "producer" /\ worker = "produce_2"
    /\ cfuture' = "pending"
    /\ producer_queue' = Append(producer_queue, raw_data)
    /\ produced' = Append(produced, SeqNumOf(raw_data))
    /\ client_calls' = client_calls \cup {ClientCall("produce", "pool")}
    /\ worker' = "flush_2"
    /\ UNCHANGED <<prog, pc, args, error, now, i, t0, data_dict, raw_data, registry,
                 register_calls, indexed, default_data_dict, field_names, invalid_seq,
                 bridge, schema_id, send_data_dict, stamped, future, wrapped, exec_future,
                 loop_ready, topic_log, acked, cb_invoked, reg_count,
                 kafka_name_topic_info, broker_topics, broker_start, describe_errors,
                 add_topics, new_topic_names, new_topic_metadata, fs, create_calls,
                 provisioned, subscribed, pool_tasks, empty_polls, read_done, message,
                 delays, processed_data, delivered, polled, processed, run, runs_log>>

\* Lines 137-141: what the delivery callback of blocking_write_2 sets
\* cfuture to.
Callback2(err) == IF err THEN "exception" ELSE "result"

\* Line 144, in the pool thread: producer.flush() delivers the queued
\* message and the callback completes cfuture.
FlushDeliver2 ==
    /\ prog = "producer" /\ worker = "flush_2" /\ producer_queue # << >>
    /\ \E err \in BOOLEAN :
        /\ topic_log' = IF err THEN topic_log ELSE Append(topic_log, Head(producer_queue))
        /\ broker_topics' = IF err THEN broker_topics
                            ELSE AutoCreated(broker_topics, kafka_name(ProducerTopic))
        /\ cfuture' = Callback2(err)
    /\ cb_invoked' = Append(cb_invoked, SeqNumOf(Head(producer_queue)))
    /\ producer_queue' = Tail(producer_queue)
    /\ client_calls' = client_calls \cup {ClientCall("flush", "pool")}
    /\ UNCHANGED <<prog, pc, args, error, now, i, t0, data_dict, raw_data, registry,
                 register_calls, indexed, default_data_dict, field_names, invalid_seq,
                 bridge, schema_id, send_data_dict, stamped, future, wrapped, exec_future,
                 worker, loop_ready, produced, acked, reg_count, kafka_name_topic_info,
                 broker_start, describe_errors, add_topics, new_topic_names,
                 new_topic_metadata, fs, create_calls, provisioned, subscribed, pool_tasks,
                 empty_polls, read_done, message, delays, processed_data, delivered,
                 polled, processed, run, runs_log>>

\* Lines 144-145, in the pool thread: flush returns;
\* asyncio.wrap_future(cfuture, loop=loop) makes a pending asyncio future
\* and, cfuture being done, queues the copy of its state on the loop.  The
\* loop may run that callback before blocking_write_2 has returned.
FlushReturn2 ==
    /\ prog = "producer" /\ worker = "flush_2" /\ producer_queue = << >>
    /\ wrapped' = "pending"
    /\ loop_ready' = Append(loop_ready,
                            IF cfuture = "exception" THEN "wrapped_set_exception"
                            ELSE "wrapped_set_result")
    /\ client_calls' = client_calls \cup {ClientCall("flush", "pool")}
    /\ worker' = "return_2"
    /\ UNCHANGED <<prog, pc, args, error, now, i, t0, data_dict, raw_data, registry,
                 register_calls, indexed, default_data_dict, field_names, invalid_seq,
                 bridge, schema_id, send_data_dict, stamped, future, cfuture, exec_future,
                 producer_queue, topic_log, produced, acked, cb_invoked, reg_count,
                 kafka_name_topic_info, broker_topics, broker_start, describe_errors,
                 add_topics, new_topic_names, new_topic_metadata, fs, create_calls,
                 provisioned, subscribed, pool_tasks, empty_polls, read_done, message,
                 delays, processed_data, delivered, polled, processed, run, runs_log>>

\* Line 145, in the pool thread: blocking_write_2 returns the new future and
\* the pool completes the executor future through the loop.
BlockingWrite2Return ==
    /\ prog = "producer" /\ worker = "return_2"
    /\ loop_ready' = Append(loop_ready, "executor_done")
    /\ worker' = "idle"
    /\ UNCHANGED <<prog, pc, args, error, now, i, t0, data_dict, raw_data, registry,
                 register_calls, client_calls, indexed, default_data_dict, field_names,
                 invalid_seq, bridge, schema_id, send_data_dict, stamped, future, cfuture,
                 wrapped, exec_future, producer_queue, topic_log, produced, acked,
                 cb_invoked, reg_count, kafka_name_topic_info, broker_topics, broker_start,
                 describe_errors, add_topics, new_topic_names, new_topic_metadata, fs,
                 create_calls, provisioned, subscribed, pool_tasks, empty_polls, read_done,
                 message, delays, processed_data, delivered, polled, processed, run,
                 runs_log>>

\* Line 148: await loop.run_in_executor(...) resumes with the future
\* blocking_write_2 returned; write_2 drops it and returns, and the iteration
\* is over.
Write2Return ==
    /\ prog = "producer" /\ pc = "await_executor_2" /\ exec_future = "done"
    /\ pc' = "loop"
    /\ i' = i + 1
    /\ UNCHANGED <<prog, args, error, now, t0, data_dict, raw_data, registry, register_calls,
                 client_calls, indexed, default_data_dict, field_names, invalid_seq,
                 bridge, schema_id, send_data_dict, stamped, future, cfuture, wrapped,
                 exec_future, worker, loop_ready, producer_queue, topic_log, produced,
                 acked, cb_invoked, reg_count, kafka_name_topic_info, broker_topics,
                 broker_start, describe_errors, add_topics, new_topic_names,
                 new_topic_metadata, fs, create_calls, provisioned, subscribed, pool_tasks,
                 empty_polls, read_done, message, delays, processed_data, delivered,
                 polled, processed, run, runs_log>>

ProducerNext ==
    \/ Derive
    \/ RegisterSchema
    \/ CreateProducer
    \/ LoopHead
    \/ StampSeqNum
    \/ StampSndStamp
    \/ StampIndex
    \/ Validate
    \/ Write1Start
    \/ Produce
    \/ FlushDeliver
    \/ FlushReturn
    \/ LoopRun
    \/ AwaitExecutor
    \/ AwaitFuture
    \/ ProducerReport
    \/ Sleep


-----------------------------------------------------------------------------
(* read_kafka.py *)

PostProcess == {"none", "dataclass", "pydantic", "simple_namespace"}

\* The topics of the component, by attribute name, and the lists of them a
\* command line can ask for.
Topics == {1, 2}

\* The lists of topics of a command line (nargs="+"): one or two names, a
\* name possibly given twice.
TopicLists == {<<1>>, <<2>>, <<1, 2>>, <<2, 1>>, <<1, 1>>, <<2, 2>>}

Partitions == {1, 2}

NotATopicName == 0

\* The command line; --max_history_read is not used by main().
ConsumerArgs == [topic : TopicLists, number : 0..MaxDeliver, time : BOOLEAN,
                 partitions : Partitions, postprocess : PostProcess]

\* NewTopic(name, num_partitions=..., replication_factor=...).
NewTopic(name, num_partitions, replication_factor) ==
    [topic |-> name, num_partitions |-> num_partitions,
     replication_factor |-> replication_factor]

\* The states a broker can be in when main() starts: any of the component's
\* topics may exist already, with any partition count.
BrokerStates ==
    UNION {[S -> {[num_partitions |-> p, replication_factor |-> 1] : p \in Partitions}] :
           S \in SUBSET {kafka_name(t) : t \in Topics}}

\* The locals of main() and the process state when main() starts.
ConsumerStart ==
    /\ pc = "check_args"
    /\ error = "none"
    /\ now = 0
    /\ i = 0
    /\ t0 = << >>
    /\ data_dict = << >>
    /\ raw_data = << >>
    /\ register_calls = << >>
    /\ client_calls = {}
    /\ reg_count = 0
    /\ kafka_name_topic_info = << >>
    /\ add_topics = << >>
    /\ new_topic_names = << >>
    /\ new_topic_metadata = << >>
    /\ fs = << >>
    /\ create_calls = 0
    /\ provisioned = FALSE
    /\ subscribed = << >>
    /\ pool_tasks = 0
    /\ empty_polls = 0
    /\ read_done = << >>
    /\ message = << >>
    /\ delays = << >>
    /\ processed_data = << >>
    /\ delivered = 0
    /\ polled = << >>
    /\ processed = << >>

\* The producer's state in a process that runs the consumer.
ProducerIdle ==
    /\ indexed = FALSE
    /\ default_data_dict = << >>
    /\ field_names = << >>
    /\ invalid_seq = 0
    /\ bridge = "write_1"
    /\ cfuture = "none"
    /\ wrapped = "none"
    /\ schema_id = 0
    /\ send_data_dict = << >>
    /\ stamped = << >>
    /\ future = "none"
    /\ exec_future = "none"
    /\ worker = "idle"
    /\ loop_ready = << >>
    /\ producer_queue = << >>
    /\ topic_log = << >>
    /\ produced = << >>
    /\ acked = << >>
    /\ cb_invoked = << >>

ConsumerProcess ==
    /\ prog = "consumer"
    /\ args \in ConsumerArgs
    /\ registry = << >>
    /\ broker_topics \in BrokerStates
    /\ broker_start = broker_topics
    /\ run = 1
    /\ runs_log = << >>
    /\ ConsumerStart
    /\ ProducerIdle

\* read_kafka.py with a broker whose describe_configs fails for missing
\* topics only, with UNKNOWN_TOPIC_OR_PART.
ConsumerInit ==
    /\ ConsumerProcess
    /\ describe_errors = {}

\* Lines 81-82.
CheckArgs ==
    /\ prog = "consumer" /\ pc = "check_args"
    /\ IF args.time /\ args.number = 1
       THEN Raise("ValueError")
       ELSE /\ pc' = "register"
            /\ UNCHANGED error
    /\ UNCHANGED <<prog, args, now, i, t0, data_dict, raw_data, registry, register_calls,
                 client_calls, indexed, default_data_dict, field_names, invalid_seq,
                 bridge, schema_id, send_data_dict, stamped, future, cfuture, wrapped,
                 exec_future, worker, loop_ready, producer_queue, topic_log, produced,
                 acked, cb_invoked, reg_count, kafka_name_topic_info, broker_topics,
                 broker_start, describe_errors, add_topics, new_topic_names,
                 new_topic_metadata, fs, create_calls, provisioned, subscribed, pool_tasks,
                 empty_polls, read_done, message, delays, processed_data, delivered,
                 polled, processed, run, runs_log>>

\* Lines 106-114: one iteration of the loop that registers the schemas.
RegisterTopicSchema ==
    /\ prog = "consumer" /\ pc = "register"
    /\ LET topic_info == args.topic[reg_count + 1]
           id == RegisteredId(registry, avro_subject(topic_info))
       IN /\ registry' = SetItem(registry, avro_subject(topic_info), id)
          /\ register_calls' = Append(register_calls, avro_subject(topic_info))
          /\ kafka_name_topic_info' =
                 SetItem(kafka_name_topic_info, kafka_name(topic_info), topic_info)
    /\ reg_count' = reg_count + 1
    /\ pc' = IF reg_count' = Len(args.topic) THEN "describe" ELSE "register"
    /\ UNCHANGED <<prog, args, error, now, i, t0, data_dict, raw_data, client_calls, indexed,
                 default_data_dict, field_names, invalid_seq, bridge, schema_id,
                 send_data_dict, stamped, future, cfuture, wrapped, exec_future, worker,
                 loop_ready, producer_queue, topic_log, produced, acked, cb_invoked,
                 broker_topics, broker_start, describe_errors, add_topics, new_topic_names,
                 new_topic_metadata, fs, create_calls, provisioned, subscribed, pool_tasks,
                 empty_polls, read_done, message, delays, processed_data, delivered,
                 polled, processed, run, runs_log>>

\* Line 116.
all_topics == [k \in 1..Len(args.topic) |-> kafka_name(args.topic[k])]

\* Line 121.
extra_topics == Append(all_topics, NotATopicName)

\* list(dict.fromkeys(names)): the keys of a dict filled from names, each
\* name once, in the order of its first mention.
RECURSIVE DictKeys(_)
DictKeys(names) ==
    IF names = << >> THEN << >>
    ELSE LET front == DictKeys(SubSeq(names, 1, Len(names) - 1))
             last == names[Len(names)]
         IN IF last \in Range(front) THEN front ELSE Append(front, last)

\* Lines 122-126: describe_configs returns a dict keyed by ConfigResource,
\* which compares and hashes by (restype, name): a name given twice is
\* one key, so the loop of line 127 sees each name of extra_topics once.
config_future_dict == DictKeys(extra_topics)

\* Lines 127-132: the keys whose describe_configs future holds an exception
\* with code UNKNOWN_TOPIC_OR_PART: the names the broker does not have,
\* unless the call failed with another error for them.
UnknownTopics ==
    SelectSeq(config_future_dict,
              LAMBDA name : name \notin DOMAIN broker_topics /\ name \notin describe_errors)

\* Lines 119-141: describe_configs; each distinct topic whose future fails
\* with UNKNOWN_TOPIC_OR_PART is put on add_topics once, any other failure
\* is only printed.
DescribeConfigs ==
    /\ prog = "consumer" /\ pc = "describe"
    /\ add_topics' = [k \in 1..Len(UnknownTopics) |->
                         NewTopic(UnknownTopics[k], args.partitions, 1)]
    /\ pc' = "list_topics"
    /\ UNCHANGED <<prog, args, error, now, i, t0, data_dict, raw_data, registry,
                 register_calls, client_calls, indexed, default_data_dict, field_names,
                 invalid_seq, bridge, schema_id, send_data_dict, stamped, future, cfuture,
                 wrapped, exec_future, worker, loop_ready, producer_queue, topic_log,
                 produced, acked, cb_invoked, reg_count, kafka_name_topic_info,
                 broker_topics, broker_start, describe_errors, new_topic_names,
                 new_topic_metadata, fs, create_calls, provisioned, subscribed, pool_tasks,
                 empty_polls, read_done, message, delays, processed_data, delivered,
                 polled, processed, run, runs_log>>

\* sorted(names)
RECURSIVE Sorted(_)
Sorted(names) ==
    IF names = {} THEN << >>
    ELSE LET least == CHOOSE n \in names : \A m \in names : n <= m
         IN <<least>> \o Sorted(names \ {least})

\* NewTopicNames that does not subtract the existing topics.
NewTopicNamesAll(existing_topic_names) == Sorted(Range(all_topics))

\* NewTopicNames computed from extra_topics.
NewTopicNamesOfExtra(existing_topic_names) ==
    Sorted(Range(extra_topics) \ existing_topic_names)

\* Lines 143-145: the topics to create.
NewTopicNames(existing_topic_names) ==
    Sorted(Range(all_topics) \ existing_topic_names)

\* Lines 143-146: list_topics and the names that are missing; with none
\* missing the provisioning is over.
ListTopics ==
    /\ prog = "consumer" /\ pc = "list_topics"
    /\ new_topic_names' = NewTopicNames(DOMAIN broker_topics)
    /\ pc' = IF new_topic_names' # << >> THEN "create_topics" ELSE "subscribe"
    /\ provisioned' = (new_topic_names' = << >>)
    /\ UNCHANGED <<prog, args, error, now, i, t0, data_dict, raw_data, registry,
                 register_calls, client_calls, indexed, default_data_dict, field_names,
                 invalid_seq, bridge, schema_id, send_data_dict, stamped, future, cfuture,
                 wrapped, exec_future, worker, loop_ready, producer_queue, topic_log,
                 produced, acked, cb_invoked, reg_count, kafka_name_topic_info,
                 broker_topics, broker_start, describe_errors, add_topics,
                 new_topic_metadata, fs, create_calls, subscribed, pool_tasks, empty_polls,
                 read_done, message, delays, processed_data, delivered, polled, processed,
                 run, runs_log>>

\* NewTopicMetadata that leaves num_partitions at 1.
NewTopicMetadataOnePartition(names, partitions) ==
    [k \in 1..Len(names) |-> NewTopic(names[k], 1, 1)]

\* Lines 148-155.
NewTopicMetadata(names, partitions) ==
    [k \in 1..Len(names) |-> NewTopic(names[k], partitions, 1)]

\* Lines 147-156: create_topics; the broker creates each topic or reports
\* a failure for it.
CreateTopics ==
    /\ prog = "consumer" /\ pc = "create_topics"
    /\ new_topic_metadata' = NewTopicMetadata(new_topic_names, args.partitions)
    /\ \E failed \in SUBSET Range(new_topic_names) :
        /\ fs' = [k \in 1..Len(new_topic_names) |->
                     [topic |-> new_topic_names[k],
                      exception |-> new_topic_names[k] \in failed]]
        /\ broker_topics' =
               [name \in DOMAIN broker_topics \cup (Range(new_topic_names) \ failed) |->
                   IF name \in DOMAIN broker_topics THEN broker_topics[name]
                   ELSE LET spec == CHOOSE t \in Range(new_topic_metadata') : t.topic = name
                        IN [num_partitions |-> spec.num_partitions,
                            replication_factor |-> spec.replication_factor]]
    /\ create_calls' = create_calls + 1
    /\ pc' = "create_results"
    /\ UNCHANGED <<prog, args, error, now, i, t0, data_dict, raw_data, registry,
                 register_calls, client_calls, indexed, default_data_dict, field_names,
                 invalid_seq, bridge, schema_id, send_data_dict, stamped, future, cfuture,
                 wrapped, exec_future, worker, loop_ready, producer_queue, topic_log,
                 produced, acked, cb_invoked, reg_count, kafka_name_topic_info,
                 broker_start, describe_errors, add_topics, new_topic_names, provisioned,
                 subscribed, pool_tasks, empty_polls, read_done, message, delays,
                 processed_data, delivered, polled, processed, run, runs_log>>

CreateResultsPrintOnly ==
    /\ prog = "consumer" /\ pc = "create_results"
    /\ pc' = "subscribe"
    /\ provisioned' = ~(\E k \in DOMAIN fs : fs[k].exception)
    /\ UNCHANGED <<prog, args, error, now, i, t0, data_dict, raw_data, registry,
                 register_calls, client_calls, indexed, default_data_dict, field_names,
                 invalid_seq, bridge, schema_id, send_data_dict, stamped, future, cfuture,
                 wrapped, exec_future, worker, loop_ready, producer_queue, topic_log,
                 produced, acked, cb_invoked, reg_count, kafka_name_topic_info,
                 broker_topics, broker_start, describe_errors, add_topics, new_topic_names,
                 new_topic_metadata, fs, create_calls, subscribed, pool_tasks, empty_polls,
                 read_done, message, delays, processed_data, delivered, polled, processed,
                 run, runs_log>>

\* Lines 157-162: the first failed creation is raised.
CreateResults ==
    /\ prog = "consumer" /\ pc = "create_results"
    /\ IF \E k \in DOMAIN fs : fs[k].exception
       THEN /\ Raise("KafkaException")
            /\ UNCHANGED provisioned
       ELSE /\ pc' = "subscribe"
            /\ provisioned' = TRUE
            /\ UNCHANGED error
    /\ UNCHANGED <<prog, args, now, i, t0, data_dict, raw_data, registry, register_calls,
                 client_calls, indexed, default_data_dict, field_names, invalid_seq,
                 bridge, schema_id, send_data_dict, stamped, future, cfuture, wrapped,
                 exec_future, worker, loop_ready, producer_queue, topic_log, produced,
                 acked, cb_invoked, reg_count, kafka_name_topic_info, broker_topics,
                 broker_start, describe_errors, add_topics, new_topic_names,
                 new_topic_metadata, fs, create_calls, subscribed, pool_tasks, empty_polls,
                 read_done, message, delays, processed_data, delivered, polled, processed,
                 run, runs_log>>

\* Lines 164-168: the consumer and its subscription.
Subscribe ==
    /\ prog = "consumer" /\ pc = "subscribe"
    /\ subscribed' = all_topics
    /\ pc' = "loop"
    /\ client_calls' = client_calls \cup {ClientCall("subscribe", "driver")}
    /\ UNCHANGED <<prog, args, error, now, i, t0, data_dict, raw_data, registry,
                 register_calls, indexed, default_data_dict, field_names, invalid_seq,
                 bridge, schema_id, send_data_dict, stamped, future, cfuture, wrapped,
                 exec_future, worker, loop_ready, producer_queue, topic_log, produced,
                 acked, cb_invoked, reg_count, kafka_name_topic_info, broker_topics,
                 broker_start, describe_errors, add_topics, new_topic_names,
                 new_topic_metadata, fs, create_calls, provisioned, pool_tasks,
                 empty_polls, read_done, message, delays, processed_data, delivered,
                 polled, processed, run, runs_log>>

\* Lines 179-183: loop.run_in_executor(pool, blocking_read).
ReadDispatch ==
    /\ prog = "consumer" /\ pc = "loop"
    /\ pool_tasks' = pool_tasks + 1
    /\ empty_polls' = 0
    /\ pc' = "await_read"
    /\ UNCHANGED <<prog, args, error, now, i, t0, data_dict, raw_data, registry,
                 register_calls, client_calls, indexed, default_data_dict, field_names,
                 invalid_seq, bridge, schema_id, send_data_dict, stamped, future, cfuture,
                 wrapped, exec_future, worker, loop_ready, producer_queue, topic_log,
                 produced, acked, cb_invoked, reg_count, kafka_name_topic_info,
                 broker_topics, broker_start, describe_errors, add_topics, new_topic_names,
                 new_topic_metadata, fs, create_calls, provisioned, subscribed, read_done,
                 message, delays, processed_data, delivered, polled, processed, run,
                 runs_log>>

\* Lines 171-173, in the pool thread: poll times out, message is None, and
\* blocking_read polls again.
PollNone ==
    /\ prog = "consumer" /\ pool_tasks > 0
    /\ empty_polls < MaxEmptyPolls
    /\ empty_polls' = empty_polls + 1
    /\ client_calls' = client_calls \cup {ClientCall("poll", "pool")}
    /\ UNCHANGED <<prog, pc, args, error, now, i, t0, data_dict, raw_data, registry,
                 register_calls, indexed, default_data_dict, field_names, invalid_seq,
                 bridge, schema_id, send_data_dict, stamped, future, cfuture, wrapped,
                 exec_future, worker, loop_ready, producer_queue, topic_log, produced,
                 acked, cb_invoked, reg_count, kafka_name_topic_info, broker_topics,
                 broker_start, describe_errors, add_topics, new_topic_names,
                 new_topic_metadata, fs, create_calls, provisioned, subscribed, pool_tasks,
                 read_done, message, delays, processed_data, delivered, polled, processed,
                 run, runs_log>>

\* The record of the seq-th message of a topic, as its producer sent it.
SentRecord(seq) ==
    LET d == DefaultRecord(FALSE, PyInt(0))
    IN SetItem(SetItem([name \in DOMAIN d |-> NonDefault(d[name])],
                       "private_seqNum", PyInt(seq)),
               "private_sndStamp", PyFloat(0))

\* What poll() returns for a message of a topic.
Message(topic, value, err) == [topic |-> topic, value |-> value, error |-> err]

\* Lines 171-177, in the pool thread: poll returns a message without an
\* error and blocking_read returns it.
PollMessage ==
    /\ prog = "consumer" /\ pool_tasks > 0
    /\ delivered < MaxDeliver
    /\ \E topic \in Range(subscribed) :
        LET id == registry[avro_subject(kafka_name_topic_info[topic])]
            msg == Message(topic, Serialize(id, SentRecord(delivered + 1)), FALSE)
        IN /\ read_done' = Append(read_done, [exception |-> FALSE, result |-> msg])
           /\ polled' = Append(polled, msg)
    /\ delivered' = delivered + 1
    /\ pool_tasks' = pool_tasks - 1
    /\ client_calls' = client_calls \cup {ClientCall("poll", "pool")}
    /\ UNCHANGED <<prog, pc, args, error, now, i, t0, data_dict, raw_data, registry,
                 register_calls, indexed, default_data_dict, field_names, invalid_seq,
                 bridge, schema_id, send_data_dict, stamped, future, cfuture, wrapped,
                 exec_future, worker, loop_ready, producer_queue, topic_log, produced,
                 acked, cb_invoked, reg_count, kafka_name_topic_info, broker_topics,
                 broker_start, describe_errors, add_topics, new_topic_names,
                 new_topic_metadata, fs, create_calls, provisioned, subscribed,
                 empty_polls, message, delays, processed_data, processed, run, runs_log>>

\* PollError with blocking_read returning the message without looking at
\* message.error().
PollErrorReturned ==
    /\ prog = "consumer" /\ pool_tasks > 0
    /\ read_done' = Append(read_done, [exception |-> FALSE,
                                       result |-> Message(NotATopicName, << >>, TRUE)])
    /\ pool_tasks' = pool_tasks - 1
    /\ client_calls' = client_calls \cup {ClientCall("poll", "pool")}
    /\ UNCHANGED <<prog, pc, args, error, now, i, t0, data_dict, raw_data, registry,
                 register_calls, indexed, default_data_dict, field_names, invalid_seq,
                 bridge, schema_id, send_data_dict, stamped, future, cfuture, wrapped,
                 exec_future, worker, loop_ready, producer_queue, topic_log, produced,
                 acked, cb_invoked, reg_count, kafka_name_topic_info, broker_topics,
                 broker_start, describe_errors, add_topics, new_topic_names,
                 new_topic_metadata, fs, create_calls, provisioned, subscribed,
                 empty_polls, message, delays, processed_data, delivered, polled,
                 processed, run, runs_log>>

\* Lines 171-176, in the pool thread: poll returns a message that carries an
\* error and blocking_read raises it.
PollError ==
    /\ prog = "consumer" /\ pool_tasks > 0
    /\ read_done' = Append(read_done, [exception |-> TRUE,
                                       result |-> Message(NotATopicName, << >>, TRUE)])
    /\ pool_tasks' = pool_tasks - 1
    /\ client_calls' = client_calls \cup {ClientCall("poll", "pool")}
    /\ UNCHANGED <<prog, pc, args, error, now, i, t0, data_dict, raw_data, registry,
                 register_calls, indexed, default_data_dict, field_names, invalid_seq,
                 bridge, schema_id, send_data_dict, stamped, future, cfuture, wrapped,
                 exec_future, worker, loop_ready, producer_queue, topic_log, produced,
                 acked, cb_invoked, reg_count, kafka_name_topic_info, broker_topics,
                 broker_start, describe_errors, add_topics, new_topic_names,
                 new_topic_metadata, fs, create_calls, provisioned, subscribed,
                 empty_polls, message, delays, processed_data, delivered, polled,
                 processed, run, runs_log>>

\* ReadReturn that hands the next blocking_read to the pool before the
\* message is processed.
ReadReturnPrefetch ==
    /\ prog = "consumer" /\ pc = "await_read" /\ read_done # << >>
    /\ read_done' = Tail(read_done)
    /\ IF Head(read_done).exception
       THEN /\ Raise("KafkaError")
            /\ UNCHANGED <<message, raw_data, i, pool_tasks>>
       ELSE /\ message' = Head(read_done).result
            /\ raw_data' = message'.value
            /\ i' = i + 1
            /\ pool_tasks' = pool_tasks + 1
            /\ pc' = "deserialize"
            /\ UNCHANGED error
    /\ UNCHANGED <<prog, args, now, t0, data_dict, registry, register_calls, client_calls,
                 indexed, default_data_dict, field_names, invalid_seq, bridge, schema_id,
                 send_data_dict, stamped, future, cfuture, wrapped, exec_future, worker,
                 loop_ready, producer_queue, topic_log, produced, acked, cb_invoked,
                 reg_count, kafka_name_topic_info, broker_topics, broker_start,
                 describe_errors, add_topics, new_topic_names, new_topic_metadata, fs,
                 create_calls, provisioned, subscribed, empty_polls, delays,
                 processed_data, delivered, polled, processed, run, runs_log>>

\* Lines 183-186: the await resumes with the message, or with the error,
\* which main() does not catch.
ReadReturn ==
    /\ prog = "consumer" /\ pc = "await_read" /\ read_done # << >>
    /\ read_done' = Tail(read_done)
    /\ IF Head(read_done).exception
       THEN /\ Raise("KafkaError")
            /\ UNCHANGED <<message, raw_data, i>>
       ELSE /\ message' = Head(read_done).result
            /\ raw_data' = message'.value
            /\ i' = i + 1
            /\ pc' = "deserialize"
            /\ UNCHANGED error
    /\ UNCHANGED <<prog, args, now, t0, data_dict, registry, register_calls, client_calls,
                 indexed, default_data_dict, field_names, invalid_seq, bridge, schema_id,
                 send_data_dict, stamped, future, cfuture, wrapped, exec_future, worker,
                 loop_ready, producer_queue, topic_log, produced, acked, cb_invoked,
                 reg_count, kafka_name_topic_info, broker_topics, broker_start,
                 describe_errors, add_topics, new_topic_names, new_topic_metadata, fs,
                 create_calls, provisioned, subscribed, pool_tasks, empty_polls, delays,
                 processed_data, delivered, polled, processed, run, runs_log>>

\* Deserializer.deserialize(data): the schema id and the decoded fields.
Deserialize(data) == [id |-> data.schema_id, message |-> data.payload]

\* Lines 187-192: decode, stamp private_rcvStamp, record the delay.
DeserializeAndStamp ==
    /\ prog = "consumer" /\ pc = "deserialize"
    /\ LET full_data == Deserialize(raw_data)
           current_tai == now
       IN /\ data_dict' = SetItem(full_data.message, "private_rcvStamp",
                                  PyFloat(current_tai))
          /\ delays' = Append(delays,
                              current_tai - full_data.message["private_sndStamp"].val)
    /\ now' = now + 1
    /\ pc' = "postprocess"
    /\ UNCHANGED <<prog, args, error, i, t0, raw_data, registry, register_calls,
                 client_calls, indexed, default_data_dict, field_names, invalid_seq,
                 bridge, schema_id, send_data_dict, stamped, future, cfuture, wrapped,
                 exec_future, worker, loop_ready, producer_queue, topic_log, produced,
                 acked, cb_invoked, reg_count, kafka_name_topic_info, broker_topics,
                 broker_start, describe_errors, add_topics, new_topic_names,
                 new_topic_metadata, fs, create_calls, provisioned, subscribed, pool_tasks,
                 empty_polls, read_done, message, processed_data, delivered, polled,
                 processed, run, runs_log>>

SimpleNamespace(d) == [cls |-> "SimpleNamespace", fields |-> d]

\* Lines 193-204: the value of processed_data after the branch.
PostProcessed(post_process, d, old) ==
    CASE post_process = "none" -> old
      [] post_process = "dataclass" -> <<DataClass(d)>>
      [] post_process = "pydantic" -> <<Model(d)>>
      [] post_process = "simple_namespace" -> <<SimpleNamespace(d)>>

\* Lines 193-204.
PostProcessStep ==
    /\ prog = "consumer" /\ pc = "postprocess"
    /\ processed_data' = PostProcessed(args.postprocess, data_dict, processed_data)
    /\ pc' = "print"
    /\ UNCHANGED <<prog, args, error, now, i, t0, data_dict, raw_data, registry,
                 register_calls, client_calls, indexed, default_data_dict, field_names,
                 invalid_seq, bridge, schema_id, send_data_dict, stamped, future, cfuture,
                 wrapped, exec_future, worker, loop_ready, producer_queue, topic_log,
                 produced, acked, cb_invoked, reg_count, kafka_name_topic_info,
                 broker_topics, broker_start, describe_errors, add_topics, new_topic_names,
                 new_topic_metadata, fs, create_calls, provisioned, subscribed, pool_tasks,
                 empty_polls, read_done, message, delays, delivered, polled, processed,
                 run, runs_log>>

\* Lines 205-206: print(f"read [{i}]: {processed_data!r}") reads the local.
PrintRead ==
    /\ prog = "consumer" /\ pc = "print"
    /\ IF ~args.time /\ processed_data = << >>
       THEN Raise("UnboundLocalError: processed_data")
       ELSE /\ pc' = "stop_check"
            /\ UNCHANGED error
    /\ UNCHANGED <<prog, args, now, i, t0, data_dict, raw_data, registry, register_calls,
                 client_calls, indexed, default_data_dict, field_names, invalid_seq,
                 bridge, schema_id, send_data_dict, stamped, future, cfuture, wrapped,
                 exec_future, worker, loop_ready, producer_queue, topic_log, produced,
                 acked, cb_invoked, reg_count, kafka_name_topic_info, broker_topics,
                 broker_start, describe_errors, add_topics, new_topic_names,
                 new_topic_metadata, fs, create_calls, provisioned, subscribed, pool_tasks,
                 empty_polls, read_done, message, delays, processed_data, delivered,
                 polled, processed, run, runs_log>>

\* Break without the test for a count of 0.
BreakAtCount(number, count) == count >= number

\* Line 207: whether the loop is left.
Break(number, count) == number > 0 /\ count >= number

\* Lines 207-213: leave the loop, or start the clock after the first message
\* and go round.
StopCheck ==
    /\ prog = "consumer" /\ pc = "stop_check"
    /\ processed' = Append(processed, message)
    /\ IF Break(args.number, i)
       THEN /\ pc' = "report"
            /\ UNCHANGED <<t0, now>>
       ELSE /\ pc' = "loop"
            /\ t0' = IF i = 1 THEN <<now>> ELSE t0
            /\ now' = IF i = 1 THEN now + 1 ELSE now
    /\ UNCHANGED <<prog, args, error, i, data_dict, raw_data, registry, register_calls,
                 client_calls, indexed, default_data_dict, field_names, invalid_seq,
                 bridge, schema_id, send_data_dict, stamped, future, cfuture, wrapped,
                 exec_future, worker, loop_ready, producer_queue, topic_log, produced,
                 acked, cb_invoked, reg_count, kafka_name_topic_info, broker_topics,
                 broker_start, describe_errors, add_topics, new_topic_names,
                 new_topic_metadata, fs, create_calls, provisioned, subscribed, pool_tasks,
                 empty_polls, read_done, message, delays, processed_data, delivered,
                 polled, run, runs_log>>

\* Lines 215-222: dt = time.time() - t0 calls time.time() and then reads the
\* local t0; the report.
ConsumerReport ==
    /\ prog = "consumer" /\ pc = "report"
    /\ IF t0 = << >>
       THEN /\ Raise("UnboundLocalError: t0")
       ELSE /\ pc' = "done"
            /\ UNCHANGED error
    /\ now' = now + 1
    /\ UNCHANGED <<prog, args, i, t0, data_dict, raw_data, registry, register_calls,
                 client_calls, indexed, default_data_dict, field_names, invalid_seq,
                 bridge, schema_id, send_data_dict, stamped, future, cfuture, wrapped,
                 exec_future, worker, loop_ready, producer_queue, topic_log, produced,
                 acked, cb_invoked, reg_count, kafka_name_topic_info, broker_topics,
                 broker_start, describe_errors, add_topics, new_topic_names,
                 new_topic_metadata, fs, create_calls, provisioned, subscribed, pool_tasks,
                 empty_polls, read_done, message, delays, processed_data, delivered,
                 polled, processed, run, runs_log>>

\* Line 225, once more: main() is started again with the same command line
\* against the same broker and registry.
Rerun ==
    /\ prog = "consumer" /\ pc \in {"done", "failed"}
    /\ run < MaxRuns
    /\ run' = run + 1
    /\ runs_log' = Append(runs_log, [provisioned |-> provisioned,
                                    create_calls |-> create_calls])
    /\ broker_start' = broker_topics
    /\ pc' = "check_args"
    /\ error' = "none"
    /\ now' = 0
    /\ i' = 0
    /\ t0' = << >>
    /\ data_dict' = << >>
    /\ raw_data' = << >>
    /\ register_calls' = << >>
    /\ client_calls' = {}
    /\ reg_count' = 0
    /\ kafka_name_topic_info' = << >>
    /\ add_topics' = << >>
    /\ new_topic_names' = << >>
    /\ new_topic_metadata' = << >>
    /\ fs' = << >>
    /\ create_calls' = 0
    /\ provisioned' = FALSE
    /\ subscribed' = << >>
    /\ pool_tasks' = 0
    /\ empty_polls' = 0
    /\ read_done' = << >>
    /\ message' = << >>
    /\ delays' = << >>
    /\ processed_data' = << >>
    /\ delivered' = 0
    /\ polled' = << >>
    /\ processed' = << >>
    /\ UNCHANGED <<prog, args, registry, indexed, default_data_dict, field_names,
                 invalid_seq, bridge, schema_id, send_data_dict, stamped, future, cfuture,
                 wrapped, exec_future, worker, loop_ready, producer_queue, topic_log,
                 produced, acked, cb_invoked, broker_topics, describe_errors>>

ConsumerNext ==
    \/ CheckArgs
    \/ RegisterTopicSchema
    \/ DescribeConfigs
    \/ ListTopics
    \/ CreateTopics
    \/ CreateResults
    \/ Subscribe
    \/ ReadDispatch
    \/ PollNone
    \/ PollMessage
    \/ PollError
    \/ ReadReturn
    \/ DeserializeAndStamp
    \/ PostProcessStep
    \/ PrintRead
    \/ StopCheck
    \/ ConsumerReport
    \/ Rerun

-----------------------------------------------------------------------------

Init == ProducerInit \/ ConsumerInit

Next == ProducerNext \/ ConsumerNext

Spec == Init /\ [][Next]_vars

\* The producer with either bridge coroutine awaited at line 177.
BridgeInit ==
    /\ bridge \in {"write_1", "write_2"}
    /\ ProducerStart

BridgeNext ==
    \/ ProducerNext
    \/ Write2Start
    \/ Produce2
    \/ FlushDeliver2
    \/ FlushReturn2
    \/ BlockingWrite2Return
    \/ Write2Return

BridgeSpec == BridgeInit /\ [][BridgeNext]_vars

\* The start of read_kafka.py up to the subscription, with a broker whose
\* describe_configs may fail with other errors for any of the names.
ProvisionInit ==
    /\ ConsumerProcess
    /\ describe_errors \in SUBSET Range(extra_topics)

ProvisionNext ==
    \/ CheckArgs
    \/ RegisterTopicSchema
    \/ DescribeConfigs
    \/ ListTopics
    \/ CreateTopics
    \/ CreateResults
    \/ Subscribe

ProvisionSpec == ProvisionInit /\ [][ProvisionNext]_vars

\* The producer alone, with its three threads of control each running when
\* it can: the pool thread, the event loop, and the driver coroutine.
ProducerFairness ==
    /\ WF_vars(Produce \/ FlushDeliver \/ FlushReturn)
    /\ WF_vars(LoopRun)
    /\ WF_vars(AwaitExecutor \/ AwaitFuture)

ProducerFairSpec == ProducerInit /\ [][ProducerNext]_vars /\ ProducerFairness

-----------------------------------------------------------------------------
(* The claims *)

\* The private_seqNum of the messages the broker accepted, in order.
LogSeqNums == [k \in 1..Len(topic_log) |-> SeqNumOf(topic_log[k])]

OneTo(n) == [k \in 1..n |-> k]

\* C1: at most one publish is in flight: produce() for message k+1 is issued
\* only after the driver has received the delivery result of message k, and
\* the producer never holds more than one undelivered message.
C1_OnePublishInFlight ==
    prog = "producer" =>
        /\ \A n \in Range(produced) : n > 1 => (n - 1) \in Range(acked)
        /\ Len(produced) - Len(acked) <= 1
        /\ Len(producer_queue) <= 1

\* The last message is being flushed, after all before it were acknowledged.
C1_Witness ==
    /\ prog = "producer" /\ worker = "flush"
    /\ produced = OneTo(MaxNumber) /\ acked = OneTo(MaxNumber - 1)

\* C2: the accepted messages carry private_seqNum 1, 2, 3, ... without gap or
\* repeat at every moment, and a run that reaches the end of the publish loop
\* (no validation or delivery error) has published exactly args.number
\* messages, under every validation strategy.
C2_SeqNumsGapFree ==
    prog = "producer" =>
        /\ LogSeqNums = OneTo(Len(topic_log))
        /\ pc \in {"report", "sleep", "done"} => Len(topic_log) = args.number

\* A run of MaxNumber messages has ended under a strategy that re-derives
\* the record.
C2_Witness ==
    /\ prog = "producer" /\ pc = "done"
    /\ args.number = MaxNumber /\ args.validation = "pydantic_and_decode"
    /\ Len(topic_log) = MaxNumber

\* The driver is inside write_1, at one of its two awaits.
AwaitingPublish == prog = "producer" /\ pc \in {"await_executor", "await_future"}

\* C3: when blocking_write_1 has returned, the delivery callback of its
\* message has been invoked (flush ran after produce), and every awaited
\* publish completes: the driver leaves the awaits of write_1.
C3_AwaitedPublishCompletes ==
    /\ [](AwaitingPublish /\ worker = "idle" => SeqNumOf(raw_data) \in Range(cb_invoked))
    /\ (AwaitingPublish ~> ~AwaitingPublish)

\* The driver awaits the future of the last message, whose callback has run.
C3_Witness ==
    /\ prog = "producer" /\ pc = "await_future"
    /\ SeqNumOf(raw_data) = MaxNumber /\ cb_invoked = OneTo(MaxNumber)

\* C4: once the broker has reported a delivery error for message k, the
\* driver is still awaiting that publish or main() has ended with the
\* KafkaException; message k is the last one ever produced, and the accepted
\* messages are exactly 1..k-1.
C4_DeliveryErrorAborts ==
    prog = "producer" =>
        \A k \in Range(cb_invoked) \ Range(LogSeqNums) :
            /\ pc \in {"await_executor", "await_future", "failed"}
            /\ pc = "failed" => error = "KafkaException"
            /\ produced = OneTo(k)
            /\ LogSeqNums = OneTo(k - 1)

\* The last message failed after all before it were accepted, and main() has
\* ended.
C4_Witness ==
    /\ prog = "producer" /\ pc = "failed" /\ error = "KafkaException"
    /\ cb_invoked = OneTo(MaxNumber) /\ LogSeqNums = OneTo(MaxNumber - 1)

\* C5: at most one blocking_read task is in the pool; while one is, the
\* driver is awaiting it and every message returned so far has finished its
\* loop iteration; messages are processed in the order the polls returned them.
C5_OneReadOutstanding ==
    prog = "consumer" =>
        /\ pool_tasks <= 1
        /\ pool_tasks = 1 => pc = "await_read" /\ processed = polled
        /\ Len(processed) <= Len(polled)
        /\ processed = SubSeq(polled, 1, Len(processed))

\* A read is outstanding after MaxDeliver messages were processed.
C5_Witness ==
    /\ prog = "consumer" /\ pool_tasks = 1
    /\ Len(processed) = MaxDeliver

\* C6 (as claimed): for --number N >= 1, once N messages have finished
\* their loop iteration the consumer ends normally, and a consumer past the
\* loop has processed exactly N messages.
C6_StopsNormallyAfterN ==
    (prog = "consumer" /\ args.number >= 1) =>
        /\ Len(processed) = args.number => pc # "failed"
        /\ pc \in {"report", "done"} => Len(processed) = args.number

\* The positions of main() inside the read loop.
InReadLoop == pc \in {"loop", "await_read", "deserialize", "postprocess", "print",
                      "stop_check"}

\* C7: with --number 0 the consumer never reaches the code after the loop, and
\* as long as it has not failed it is in the loop, however many messages it
\* has processed.
C7_CountZeroNeverStops ==
    (prog = "consumer" /\ args.number = 0) =>
        /\ pc \notin {"report", "done"}
        /\ (Len(processed) > 0 /\ pc # "failed") => InReadLoop

\* With --number 0, another read is outstanding after MaxDeliver messages.
C7_Witness ==
    /\ prog = "consumer" /\ args.number = 0
    /\ Len(processed) = MaxDeliver /\ pc = "await_read" /\ pool_tasks = 1

\* The positions of main() between two iterations of the read loop, and
\* after it.
BetweenIterations == pc \in {"loop", "report", "done", "failed"}

\* C8 (as claimed): under every post-processing strategy, with or without
\* --time, every message a poll returned is processed: between iterations
\* and at the end the processed messages and the delay samples are as many
\* as the messages returned.
C8_StrategyNeverStopsTheRun ==
    (prog = "consumer" /\ BetweenIterations) =>
        /\ Len(processed) = Len(polled)
        /\ Len(delays) = Len(polled)

\* C9 (as claimed): after provisioning every requested topic exists with
\* the configured partition count.
C9_AllTopicsConfiguredPartitions ==
    (prog = "consumer" /\ provisioned) =>
        \A name \in Range(all_topics) :
            /\ name \in DOMAIN broker_topics
            /\ broker_topics[name].num_partitions = args.partitions

\* C9 (amended): after provisioning every requested topic exists; a topic
\* the run created has the configured partition count and replication
\* factor 1, a topic that existed before keeps what it had.
C9_TopicsExistCreatedAsConfigured ==
    (prog = "consumer" /\ provisioned) =>
        \A name \in Range(all_topics) :
            /\ name \in DOMAIN broker_topics
            /\ broker_topics[name] =
                   IF name \in DOMAIN broker_start THEN broker_start[name]
                   ELSE [num_partitions |-> args.partitions, replication_factor |-> 1]

\* Provisioning created one topic with 2 partitions and kept another that
\* had 1.
C9_Witness ==
    /\ prog = "consumer" /\ provisioned /\ run = 1
    /\ args.partitions = 2 /\ Len(args.topic) = 2 /\ create_calls = 1
    /\ \E name \in Range(all_topics) \cap DOMAIN broker_start :
           broker_start[name].num_partitions = 1
    /\ \E name \in DOMAIN broker_topics \ DOMAIN broker_start :
           broker_topics[name].num_partitions = 2

\* C10: in a run of main() that follows a run whose provisioning succeeded,
\* no create_topics call is made, provisioning raises nothing, and the
\* broker's topics stay as they were.
C10_ProvisioningIdempotent ==
    (prog = "consumer" /\ run > 1 /\ runs_log[run - 1].provisioned) =>
        /\ create_calls = 0
        /\ broker_topics = broker_start
        /\ error # "KafkaException"
        /\ pc \notin {"create_topics", "create_results"}

\* The second run has provisioned after a first run that created topics.
C10_Witness ==
    /\ prog = "consumer" /\ run = 2 /\ provisioned
    /\ runs_log[1].provisioned /\ runs_log[1].create_calls = 1

\* The wire names of the topics this process publishes to or subscribes to.
NeededTopics ==
    IF prog = "producer" THEN {kafka_name(ProducerTopic)} ELSE Range(all_topics)

\* The process has issued a publish, a subscribe or a poll.
TrafficStarted ==
    produced # << >> \/ subscribed # << >> \/ pool_tasks > 0 \/ polled # << >>

\* C11: in a producer process as well as in a consumer process, once a
\* publish, a subscribe or a poll has been issued, the provisioning step of
\* this process has finished and the broker has every needed topic.
C11_ProvisionedBeforeTraffic ==
    TrafficStarted =>
        /\ provisioned
        /\ NeededTopics \subseteq DOMAIN broker_topics

\* The subjects of the requested topics, in the order of the command line.
RequestedSubjects ==
    IF prog = "producer" THEN <<avro_subject(ProducerTopic)>>
    ELSE [k \in 1..Len(args.topic) |-> avro_subject(args.topic[k])]

\* The pipeline has serialized or published (producer), or subscribed,
\* polled or deserialized (consumer).
PipelineStarted ==
    TrafficStarted \/ raw_data # << >> \/ (prog = "consumer" /\ data_dict # << >>)

\* The register_schema calls of this run made for a subject.
CallsFor(subject) == {k \in DOMAIN register_calls : register_calls[k] = subject}

\* C12: the register_schema calls of a run are made for the requested topics
\* in the order of the command line, at most one call per topic; once the
\* pipeline has started every requested topic has been registered exactly
\* once.
C12_RegisteredOnceBeforePipeline ==
    /\ Len(register_calls) <= Len(RequestedSubjects)
    /\ \A k \in 1..Len(register_calls) : register_calls[k] = RequestedSubjects[k]
    /\ \A subject \in Range(register_calls) : Cardinality(CallsFor(subject)) = 1
    /\ PipelineStarted =>
           \A subject \in Range(RequestedSubjects) : Cardinality(CallsFor(subject)) = 1

\* The create_topics call of this run reported a failure for some topic.
CreationFailed == prog = "consumer" /\ \E k \in DOMAIN fs : fs[k].exception

\* C13: when the creation of a topic has failed, main() is about to raise or
\* has raised the KafkaException of the failed creation: the run made one
\* create_topics call only, and it has not subscribed and has issued no poll.
C13_CreationFailureAborts ==
    CreationFailed =>
        /\ pc \in {"create_results", "failed"}
        /\ pc = "failed" => error = "KafkaException"
        /\ create_calls = 1
        /\ subscribed = << >>
        /\ pool_tasks = 0 /\ empty_polls = 0 /\ delivered = 0
        /\ read_done = << >> /\ polled = << >>

\* A run has ended with the failure of one topic after another topic of the
\* same call was created.
C13_Witness ==
    /\ CreationFailed /\ pc = "failed" /\ error = "KafkaException"
    /\ \E k \in DOMAIN fs : ~fs[k].exception /\ fs[k].topic \in DOMAIN broker_topics

\* The calls on the broker client object that are in progress.
CallsInProgress ==
    IF prog = "producer" THEN (IF worker = "flush" THEN 1 ELSE 0) ELSE pool_tasks

\* C14: every call on the Producer or Consumer object (subscribe, poll,
\* produce, flush) was made on a thread of the pool, none on the thread of
\* the event loop, and at most one call is in progress.
C14_ClientCalledFromPoolOnly ==
    /\ \A c \in client_calls : c.thread = "pool"
    /\ CallsInProgress <= 1

\* A value of a supported type: an int, a float, a string, or a list of ints
\* or of floats.
Supported(value) ==
    \/ value.type \in {"int", "float", "str"}
    \/ /\ value.type = "list"
       /\ \/ \A k \in DOMAIN value.val : value.val[k].type = "int"
          \/ \A k \in DOMAIN value.val : value.val[k].type = "float"

\* The topic's default record has a field of an unsupported type.
HasUnsupportedField ==
    /\ prog = "producer"
    /\ \E name \in DOMAIN default_data_dict : ~Supported(default_data_dict[name])

\* C15: with a field of an unsupported type in the default record, the
\* producer is deriving its data or has failed with the RuntimeError of the
\* derivation: no schema was registered, no producer was created and nothing
\* was serialized or published.
C15_UnsupportedTypeAbortsBeforeIO ==
    HasUnsupportedField =>
        /\ pc \in {"derive", "failed"}
        /\ pc = "failed" => error = "RuntimeError"
        /\ registry = << >> /\ register_calls = << >> /\ schema_id = 0
        /\ t0 = << >> /\ client_calls = {}
        /\ raw_data = << >> /\ worker = "idle"
        /\ produced = << >> /\ producer_queue = << >> /\ topic_log = << >>

\* A producer whose record has a list of strings has failed in the
\* derivation.
C15_Witness ==
    /\ HasUnsupportedField /\ pc = "failed" /\ error = "RuntimeError"
    /\ default_data_dict["value"] = PyList("str", "")

\* The selected validation strategy rejects a message of this run, the one
\* with private_seqNum invalid_seq.
StrategyRejects ==
    /\ prog = "producer" /\ args.validation # "none"
    /\ invalid_seq \in 1..args.number

\* C16: when the validation strategy rejects message k, only messages
\* before k are ever serialized or published; once the rejection has been
\* raised the run has failed with it, and messages 1..k-1 are published and
\* in the topic.
C16_RejectionStopsTheRun ==
    StrategyRejects =>
        /\ \A n \in Range(produced) : n < invalid_seq
        /\ raw_data # << >> => SeqNumOf(raw_data) < invalid_seq
        /\ \A k \in 1..Len(topic_log) : SeqNumOf(topic_log[k]) < invalid_seq
        /\ error = "ValidationError" =>
               /\ pc = "failed" /\ worker = "idle"
               /\ data_dict["private_seqNum"].val = invalid_seq
               /\ produced = OneTo(invalid_seq - 1)
               /\ LogSeqNums = OneTo(invalid_seq - 1)

\* A run has failed with the rejection of a message after it published the
\* messages before it.
C16_Witness ==
    /\ StrategyRejects /\ error = "ValidationError"
    /\ invalid_seq > 1 /\ LogSeqNums = OneTo(invalid_seq - 1)

\* The messages the broker reported as delivered (callback without error).
Delivered == Range(LogSeqNums)

\* C17: with write_1 as with write_2 awaited at line 177, a write that
\* returned normally (i counts them) had its delivery callback invoked and
\* its message accepted by the broker: the coroutine returns only after the
\* delivery result is known, and on a delivery error it raises instead of
\* returning.
C17_BridgesEquivalent ==
    prog = "producer" =>
        \A n \in 1..i : n \in Range(cb_invoked) /\ n \in Delivered

\* The names of a list of NewTopic.
TopicNames(new_topics) == {new_topics[k].topic : k \in DOMAIN new_topics}

\* The needed names the broker did not have when the run started.
MissingTopics == Range(all_topics) \ DOMAIN broker_start

\* What holds of the list submitted to create_topics whatever
\* describe_configs answered: the needed names that were missing, each with
\* the configured partition count and replication factor 1, and no call
\* without a missing name.
CreateSetIsMissingSet ==
    /\ create_calls > 0 =>
           /\ new_topic_metadata # << >>
           /\ TopicNames(new_topic_metadata) = MissingTopics
           /\ Len(new_topic_metadata) = Cardinality(MissingTopics)
           /\ \A k \in DOMAIN new_topic_metadata :
                  /\ new_topic_metadata[k].num_partitions = args.partitions
                  /\ new_topic_metadata[k].replication_factor = 1
                  /\ new_topic_metadata[k].topic \notin DOMAIN broker_start
                  /\ new_topic_metadata[k].topic # NotATopicName
    /\ MissingTopics = {} => create_calls = 0 /\ pc # "create_topics"

\* C18 as claimed: the list submitted to create_topics is the missing needed
\* names as configured, without an existing topic or the sentinel, it agrees
\* with the needed names describe_configs marked as missing, and no call is
\* made for an empty list.
C18_CreateSetAgreesWithDescribe ==
    prog = "consumer" =>
        /\ CreateSetIsMissingSet
        /\ create_calls > 0 =>
               TopicNames(new_topic_metadata) = TopicNames(add_topics) \cap Range(all_topics)

\* C18, amended: the list submitted to create_topics is the missing needed
\* names as configured, without an existing topic or the sentinel, and no
\* call is made for an empty list; every needed name describe_configs marked
\* as missing is in the list, and the two agree when describe_configs failed
\* with another error for no missing needed name.
C18_CreateSetFromListTopics ==
    prog = "consumer" =>
        /\ CreateSetIsMissingSet
        /\ create_calls > 0 =>
               /\ TopicNames(add_topics) \cap Range(all_topics)
                      \subseteq TopicNames(new_topic_metadata)
               /\ describe_errors \cap MissingTopics = {} =>
                      TopicNames(new_topic_metadata) =
                          TopicNames(add_topics) \cap Range(all_topics)

\* One of two needed topics existed; the other was submitted to
\* create_topics although its describe_configs failed with another error,
\* and add_topics holds the sentinel only.
C18_Witness ==
    /\ prog = "consumer" /\ create_calls = 1 /\ Cardinality(Range(all_topics)) = 2
    /\ Cardinality(MissingTopics) = 1 /\ MissingTopics \subseteq describe_errors
    /\ TopicNames(add_topics) = {NotATopicName}

\* C19: a blocking_read task ends with an exception exactly for a message
\* that carries an error and otherwise with a message that has a value; the
\* driver's message is such a message.  While the driver awaits a read that
\* has not ended, its task is still polling, timed-out polls included.  Once
\* the error of a read has been raised, main() has failed with it and no
\* task is left to poll.
C19_ReadReturnsErrorFreeMessage ==
    prog = "consumer" =>
        /\ \A k \in DOMAIN read_done :
               /\ read_done[k].exception = read_done[k].result.error
               /\ ~read_done[k].exception => DOMAIN read_done[k].result.value # {}
        /\ DOMAIN message # {} => ~message.error /\ DOMAIN message.value # {}
        /\ \A k \in DOMAIN polled : ~polled[k].error
        /\ (pc = "await_read" /\ read_done = << >>) => pool_tasks = 1
        /\ pc \in {"deserialize", "postprocess", "print", "stop_check"} =>
               DOMAIN message # {} /\ pool_tasks = 0
        /\ error = "KafkaError" =>
               /\ pc = "failed"
               /\ pool_tasks = 0 /\ read_done = << >>
               /\ Len(polled) = i /\ delivered = i

\* A read whose poll timed out before it got a message with an error has
\* ended the run, after an earlier read returned a message.
C19_Witness ==
    /\ prog = "consumer" /\ error = "KafkaError" /\ pc = "failed"
    /\ empty_polls > 0 /\ processed # << >>

\* C20: when the validation of a message starts, the field written last to
\* the record in this iteration is private_sndStamp, for indexed and for
\* non-indexed components.
C20_SndStampWrittenLast ==
    (prog = "producer" /\ pc = "validate") =>
        /\ stamped # << >>
        /\ stamped[Len(stamped)] = "private_sndStamp"

=============================================================================
